---- MODULE Spec2Model ----
(***************************************************************************)
(* A model of the aerial person detection application:                     *)
(*   - ModelManager (src/model_manager.py): the gateway to the inference   *)
(*     backend, with its confidence and IoU thresholds;                    *)
(*   - VideoProcessor (src/video_processor.py): the frame source, the      *)
(*     reader loop (_playback_loop), the delivery loop (_processing_loop)  *)
(*     and the bounded frame_queue between them;                           *)
(*   - the handlers of AerialDetectionGUI (src/main_window.py) that drive  *)
(*     the VideoProcessor from the presentation thread, its load handlers  *)
(*     with their buttons, and the callbacks it posts with root.after.     *)
(*                                                                         *)
(* Thresholds are floats in the source; here they are integers counting    *)
(* hundredths (0.5 is 50, 0.45 is 45), so [0,1] is 0..100.                 *)
(* A file path is the sequence of its components (<<"weights","best.pt">>  *)
(* is weights/best.pt); the empty path "" is <<>>.                         *)
(***************************************************************************)
EXTENDS Integers, Sequences, FiniteSets, TLC

VARIABLES
    \* ---- ModelManager ----
    model,                  \* self.model: the backend object, with its conf and iou fields
    model_path,             \* self.model_path
    confidence_threshold,   \* self.confidence_threshold
    iou_threshold,          \* self.iou_threshold
    backend_calls,          \* history: the (conf, iou) the backend ran with, per inference
    mm_ret,                 \* the last ModelManager call and what it returned or raised
    mm_ncalls,              \* number of ModelManager calls made so far
    set_conf,               \* history: argument of the latest update_confidence (or the default)
    set_iou,                \* history: argument of the latest update_iou (or the default)
    \* ---- VideoProcessor ----
    cap,                    \* self.cap: the capture handle
    current_video_path,     \* self.current_video_path
    is_playing,             \* self.is_playing
    processing_active,      \* self.processing_active
    frame_counter,          \* self.frame_counter
    frame_queue,            \* self.frame_queue: the bounded hand-off buffer
    frame_callback,         \* self.frame_callback is set
    playback_control_callback, \* self.playback_control_callback is set
    video_thread,           \* self.video_thread: 0 is None, else the thread's slot
    processing_thread,      \* self.processing_thread: 0 is None, else the thread's slot
    readers,                \* the threads running _playback_loop, by slot
    procs,                  \* the threads running _processing_loop, by slot
    \* ---- presentation thread ----
    mpc,                    \* where the presentation thread is inside the running call
    mop,                    \* the handler or method it is running (or ran last)
    mret,                   \* what the last finished call returned
    mbranch,                \* which way toggle_playback went
    marg,                   \* the argument of the running call
    mprev,                  \* the call it made before the one in mop
    nops,                   \* number of calls the presentation thread has made
    \* ---- the GUI ----
    tk_queue,               \* callbacks posted with root.after, not yet run
    widgets,                \* text and state of the buttons
    \* ---- history ----
    delivered,              \* frames passed to frame_callback, in order
    notified,               \* arguments passed to playback_control_callback, in order
    eos,                    \* per reader slot: bookkeeping of its end-of-stream path
    run_base,               \* history: length of delivered when the current run started
    run_stale,              \* history: frames already sampled when the current run started
    loop_errors,            \* history: frames whose callback raised in _processing_loop
    \* ---- DetectionProcessor ----
    results,                \* the detection batch of one inference
    stats,                  \* what generate_detection_stats returned for it
    result_text,            \* what format_detection_results returned for it
    stats_text              \* what format_statistics_text returned for stats

mmvars == <<model, model_path, confidence_threshold, iou_threshold,
            backend_calls, mm_ret, mm_ncalls, set_conf, set_iou>>

vpstate == <<cap, current_video_path, is_playing, processing_active, frame_counter,
             frame_queue, frame_callback, playback_control_callback,
             video_thread, processing_thread, readers, procs>>

mainvars == <<mpc, mop, mret, mbranch, marg, mprev, nops>>

histvars == <<delivered, notified, eos, run_base, run_stale, loop_errors>>

guivars == <<tk_queue, widgets>>

vpvars == <<vpstate, mainvars, histvars, guivars>>

dpvars == <<results, stats, result_text, stats_text>>

vars == <<mmvars, vpvars, dpvars>>

(***************************************************************************)
(* Bounds of the model.                                                    *)
(***************************************************************************)
\* ModelManager calls made in one behaviour
MaxCalls == 4

\* Calls the presentation thread makes on the VideoProcessor in one behaviour
MaxOps == 3

\* Frames of the video clip.mp4
ClipFrames == 4

\* Threads of one kind (reader, delivery) that may exist at the same time
ThreadSlots == 2

\* Frames of the video long.mp4: enough to sample more frames than the buffer holds
LongFrames == 34

(***************************************************************************)
(* ModelManager                                                            *)
(***************************************************************************)
DEFAULT_CONFIDENCE == 50
DEFAULT_IOU == 45

\* The model files a user may pick; the last one does not exist.
ModelPaths == { <<"best.pt">>, <<"weights", "yolov5s.pt">>, <<"missing.pt">> }

\* torch.hub.load can succeed only on a file that exists.
ExistingModelPaths == { <<"best.pt">>, <<"weights", "yolov5s.pt">> }

\* Arguments handed to update_confidence / update_iou: the slider's range is
\* 0.1 .. 1.0, the methods themselves take any float.
ThresholdArgs == { -20, 10, 45, 100, 130 }

\* self.model = None
NoModel == [loaded |-> FALSE, file |-> <<>>, conf |-> 0, iou |-> 0]

\* os.path.basename
basename(path) == IF path = <<>> THEN "" ELSE path[Len(path)]

\* A loaded model file, as load_model leaves self.model
LoadedModel(path, conf, iou) ==
    [loaded |-> TRUE, file |-> path, conf |-> conf, iou |-> iou]

\* ModelManager.__init__ with auto_load: best.pt is loaded when it exists and loads
ModelManagerInit ==
    /\ confidence_threshold = DEFAULT_CONFIDENCE
    /\ iou_threshold = DEFAULT_IOU
    /\ \/ model = NoModel /\ model_path = <<>>
       \/ /\ model = LoadedModel(<<"best.pt">>, DEFAULT_CONFIDENCE, DEFAULT_IOU)
          /\ model_path = <<"best.pt">>
    /\ backend_calls = <<>>
    /\ mm_ret = [op |-> "__init__", val |-> "None"]
    /\ mm_ncalls = 0
    /\ set_conf = DEFAULT_CONFIDENCE
    /\ set_iou = DEFAULT_IOU

\* load_model with the path assigned before the load is attempted
load_model_path_first(path, ok) ==
    /\ model_path' = path
    /\ model' = IF ok THEN LoadedModel(path, confidence_threshold, iou_threshold)
                      ELSE model
    /\ mm_ret' = [op |-> "load_model", val |-> IF ok THEN "True" ELSE "False"]
    /\ UNCHANGED <<confidence_threshold, iou_threshold, backend_calls>>

\* ModelManager.load_model; ok: torch.hub.load returned a model (else it raised)
load_model(path, ok) ==
    /\ IF ok
       THEN /\ model' = LoadedModel(path, confidence_threshold, iou_threshold)
            /\ model_path' = path
            /\ mm_ret' = [op |-> "load_model", val |-> "True"]
       ELSE /\ UNCHANGED <<model, model_path>>
            /\ mm_ret' = [op |-> "load_model", val |-> "False"]
    /\ UNCHANGED <<confidence_threshold, iou_threshold, backend_calls>>

\* ModelManager.update_confidence
update_confidence(confidence) ==
    /\ confidence_threshold' = confidence
    /\ model' = IF model.loaded THEN [model EXCEPT !.conf = confidence] ELSE model
    /\ mm_ret' = [op |-> "update_confidence", val |-> "None"]
    /\ UNCHANGED <<model_path, iou_threshold, backend_calls>>

\* ModelManager.update_iou
update_iou(iou) ==
    /\ iou_threshold' = iou
    /\ model' = IF model.loaded THEN [model EXCEPT !.iou = iou] ELSE model
    /\ mm_ret' = [op |-> "update_iou", val |-> "None"]
    /\ UNCHANGED <<model_path, confidence_threshold, backend_calls>>

\* predict with the two thresholds crossed over
predict_swapped ==
    IF ~model.loaded
    THEN /\ mm_ret' = [op |-> "predict", val |-> "RuntimeError: No model loaded"]
         /\ UNCHANGED <<model, model_path, confidence_threshold, iou_threshold,
                        backend_calls>>
    ELSE /\ model' = [model EXCEPT !.conf = iou_threshold, !.iou = confidence_threshold]
         /\ backend_calls' = Append(backend_calls,
                                [conf |-> model'.conf, iou |-> model'.iou])
         /\ mm_ret' = [op |-> "predict", val |-> "results"]
         /\ UNCHANGED <<model_path, confidence_threshold, iou_threshold>>

\* predict without the check for a loaded model
predict_unguarded ==
    /\ model' = [model EXCEPT !.conf = confidence_threshold, !.iou = iou_threshold]
    /\ backend_calls' = Append(backend_calls, [conf |-> model'.conf, iou |-> model'.iou])
    /\ mm_ret' = [op |-> "predict", val |-> "results"]
    /\ UNCHANGED <<model_path, confidence_threshold, iou_threshold>>

\* ModelManager.predict: without a model, RuntimeError; else the stored thresholds
\* are written to the model and the backend runs with the model's conf and iou
predict ==
    IF ~model.loaded
    THEN /\ mm_ret' = [op |-> "predict", val |-> "RuntimeError: No model loaded"]
         /\ UNCHANGED <<model, model_path, confidence_threshold, iou_threshold,
                        backend_calls>>
    ELSE /\ model' = [model EXCEPT !.conf = confidence_threshold, !.iou = iou_threshold]
         /\ backend_calls' = Append(backend_calls,
                                [conf |-> model'.conf, iou |-> model'.iou])
         /\ mm_ret' = [op |-> "predict", val |-> "results"]
         /\ UNCHANGED <<model_path, confidence_threshold, iou_threshold>>

\* ModelManager.get_model_name
get_model_name ==
    IF model_path # <<>> THEN basename(model_path) ELSE "No model loaded"

\* ModelManager.is_loaded
is_loaded == model.loaded

\* ---- the calls a client of the ModelManager makes ----
LoadModel ==
    /\ mm_ncalls < MaxCalls
    /\ \E path \in ModelPaths, ok \in BOOLEAN :
          /\ ok => path \in ExistingModelPaths
          /\ load_model(path, ok)
    /\ mm_ncalls' = mm_ncalls + 1
    /\ UNCHANGED <<set_conf, set_iou, vpvars, dpvars>>

UpdateConfidence ==
    /\ mm_ncalls < MaxCalls
    /\ \E c \in ThresholdArgs :
          /\ update_confidence(c)
          /\ set_conf' = c
    /\ mm_ncalls' = mm_ncalls + 1
    /\ UNCHANGED <<set_iou, vpvars, dpvars>>

UpdateIou ==
    /\ mm_ncalls < MaxCalls
    /\ \E i \in ThresholdArgs :
          /\ update_iou(i)
          /\ set_iou' = i
    /\ mm_ncalls' = mm_ncalls + 1
    /\ UNCHANGED <<set_conf, vpvars, dpvars>>

Predict ==
    /\ mm_ncalls < MaxCalls
    /\ predict
    /\ mm_ncalls' = mm_ncalls + 1
    /\ UNCHANGED <<set_conf, set_iou, vpvars, dpvars>>

(***************************************************************************)
(* VideoProcessor                                                          *)
(***************************************************************************)
\* VideoProcessor.__init__: process_every_nth_frame=3
process_every_nth_frame == 3

\* VideoProcessor.__init__: queue.Queue(maxsize=10)
QueueMaxSize == 10

\* The video files a user may pick: a short clip, a clip of ten frames, a long
\* clip, a clip whose second frame cannot be decoded, and a file that cannot be
\* opened.
VideoFrames(vid) ==
    CASE vid = "clip.mp4" -> ClipFrames
      [] vid = "ten_frames.mp4" -> 10
      [] vid = "long.mp4" -> LongFrames
      [] vid = "damaged.mp4" -> 3
      [] OTHER -> 0

\* cv2.VideoCapture(path).isOpened()
Openable(vid) == vid \in {"clip.mp4", "ten_frames.mp4", "long.mp4", "damaged.mp4"}

\* The frame at this index decodes
Decodable(vid, idx) == ~(vid = "damaged.mp4" /\ idx = 1)

Slots == 1..ThreadSlots

\* self.cap = None
NoCap == [made |-> FALSE, open |-> FALSE, vid |-> "", pos |-> 0]

\* cv2.VideoCapture(path)
VideoCapture(vid) == [made |-> TRUE, open |-> Openable(vid), vid |-> vid, pos |-> 0]

\* cap.release(): the handle is closed (a closed handle reports position 0)
release(c) == [c EXCEPT !.open = FALSE, !.pos = 0]

\* cap.set(cv2.CAP_PROP_POS_FRAMES, 0): no effect on a closed handle
seek_start(c) == IF c.open THEN [c EXCEPT !.pos = 0] ELSE c

\* ret of cap.read(): a frame is there and decodes
read_ok(c) == c.open /\ c.pos < VideoFrames(c.vid) /\ Decodable(c.vid, c.pos)

\* frame of a successful cap.read(): the frame at the read position
read_frame(c) == [vid |-> c.vid, idx |-> c.pos]

\* the handle after a successful cap.read()
read_advance(c) == [c EXCEPT !.pos = c.pos + 1]

NoFrame == [vid |-> "", idx |-> -1]

\* A thread that does not run (never started, or finished)
DeadThread == [pc |-> "dead", frame |-> NoFrame, tmp |-> 0]

\* threading.Thread.is_alive(), of the thread a handle names (0 is None)
is_alive(threads, handle) == handle # 0 /\ threads[handle].pc # "dead"

\* The slot a newly created thread takes: the first one not running
HasFreeSlot(threads) == \E i \in Slots : threads[i].pc = "dead"
FreeSlot(threads) ==
    CHOOSE i \in Slots : threads[i].pc = "dead" /\ \A k \in 1..(i-1) : threads[k].pc # "dead"

NoEos == [on |-> FALSE, nostart |-> FALSE, notes |-> 0]

\* A button of the window: its label and its state
Button(text, state) == [text |-> text, state |-> state]

\* The buttons as setup_ui creates them
InitialWidgets ==
    [play_button |-> Button("Play", "normal"),
     load_model_btn |-> Button("Load YOLOv5 Model", "normal"),
     load_image_btn |-> Button("Load Image", "normal"),
     load_video_btn |-> Button("Load Video", "normal"),
     image_label |-> NoFrame]

\* The play button's label for a playing state
PlayLabel(playing) == IF playing THEN "Pause" ELSE "Play"

\* root.after(0, callback): the callback is queued for the presentation thread
root_after(q, callback) == Append(q, callback)

\* The callback _process_video_frame posts: detection on the frame
FramePost(frame) == [kind |-> "frame", frame |-> frame, playing |-> FALSE]

\* The callback _update_play_button posts: the play button is relabelled
ButtonPost(playing) == [kind |-> "button", frame |-> NoFrame, playing |-> playing]

\* VideoProcessor.__init__, and the callbacks AerialDetectionGUI.__init__ registers
VideoProcessorInit ==
    /\ cap = NoCap
    /\ current_video_path = ""
    /\ is_playing = FALSE
    /\ processing_active = FALSE
    /\ frame_counter = 0
    /\ frame_queue = <<>>
    /\ frame_callback = TRUE
    /\ playback_control_callback = TRUE
    /\ video_thread = 0
    /\ processing_thread = 0
    /\ readers = [i \in Slots |-> DeadThread]
    /\ procs = [i \in Slots |-> DeadThread]
    /\ mpc = "idle"
    /\ mop = "__init__"
    /\ mret = "None"
    /\ mbranch = "none"
    /\ marg = ""
    /\ mprev = "__init__"
    /\ nops = 0
    /\ delivered = <<>>
    /\ notified = <<>>
    /\ eos = [i \in Slots |-> NoEos]
    /\ run_base = 0
    /\ run_stale = 0
    /\ loop_errors = <<>>
    /\ tk_queue = <<>>
    /\ widgets = InitialWidgets

(***************************************************************************)
(* The presentation thread: it runs one call at a time, statement by       *)
(* statement, while the reader and delivery threads run between them.      *)
(***************************************************************************)
\* The statements of start_playback
StartLabels == {"s_playing", "s_active", "s_video_thread", "s_processing_thread"}

\* The statements of stop_playback
StopLabels == {"p_playing", "p_active"}

\* The first statement of each call
Entry(op) ==
    CASE op = "load_video" -> "l_release"
      [] op = "start_playback" -> "s_playing"
      [] op = "stop_playback" -> "p_playing"
      [] op = "toggle_playback" -> "t_check"
      [] op = "reset_video" -> "v_position"
      [] op = "stop_video" -> "p_playing"
      [] op = "cleanup" -> "c_playing"
      [] op = "toggle_video" -> "tv_check"
      [] op = "get_first_frame" -> "g_read"

\* History: a reader on its end-of-stream path records whether a statement of
\* start_playback has run (or was pending) since its failed read
EosSeesMain(newpc) ==
    [i \in Slots |-> [eos[i] EXCEPT !.nostart = eos[i].nostart /\ newpc \notin StartLabels]]

\* The presentation thread moves to statement newpc; nothing returns yet
Goto(newpc) ==
    /\ mpc' = newpc
    /\ eos' = EosSeesMain(newpc)
    /\ UNCHANGED <<mop, mret, mbranch, marg, mprev, nops>>

\* The running call returns val
Return(val) ==
    /\ mpc' = "idle"
    /\ mret' = val
    /\ eos' = EosSeesMain("idle")
    /\ UNCHANGED <<mop, mbranch, marg, mprev, nops>>

\* The presentation thread makes the next call: op(arg)
Call(op, arg) ==
    /\ mpc = "idle"
    /\ nops < MaxOps
    /\ mop' = op
    /\ mprev' = mop
    /\ marg' = arg
    /\ mpc' = Entry(op)
    /\ mbranch' = "none"
    /\ nops' = nops + 1
    /\ eos' = EosSeesMain(Entry(op))
    /\ UNCHANGED <<mret, vpstate, delivered, notified, run_base, run_stale, loop_errors, guivars, mmvars, dpvars>>

\* _load_video_sync: if self.cap: self.cap.release()
load_video_release ==
    /\ mpc = "l_release"
    /\ cap' = IF cap.made THEN release(cap) ELSE cap
    /\ Goto("l_open")
    /\ UNCHANGED <<current_video_path, is_playing, processing_active, frame_counter,
                   frame_queue, frame_callback, playback_control_callback,
                   video_thread, processing_thread, readers, procs>>
    /\ UNCHANGED <<delivered, notified, run_base, run_stale, loop_errors, guivars, mmvars, dpvars>>

\* _load_video_sync: self.cap = cv2.VideoCapture(path); not opened: return False;
\* else the path is kept and True returned
load_video_open ==
    /\ mpc = "l_open"
    /\ cap' = VideoCapture(marg)
    /\ IF cap'.open
       THEN current_video_path' = marg /\ Return("True")
       ELSE UNCHANGED current_video_path /\ Return("False")
    /\ UNCHANGED <<is_playing, processing_active, frame_counter,
                   frame_queue, frame_callback, playback_control_callback,
                   video_thread, processing_thread, readers, procs>>
    /\ UNCHANGED <<delivered, notified, run_base, run_stale, loop_errors, guivars, mmvars, dpvars>>

\* What follows the last statement of start_playback or stop_playback: the
\* caller's next statement
AfterStartStop ==
    CASE mop \in {"toggle_playback", "toggle_video"} -> Goto("t_return")
      [] mop = "stop_video" -> Goto("v_position")
      [] OTHER -> Return("None")

\* The frames sampled and not yet passed to the frame callback: those in the
\* frame buffer and those a delivery thread has taken from it
Sampled == Len(frame_queue) + Cardinality({j \in Slots : procs[j].frame # NoFrame})

\* start_playback: if not self.cap: return; self.is_playing = True
start_playback_set_playing ==
    /\ mpc = "s_playing"
    /\ IF ~cap.made
       THEN /\ UNCHANGED <<is_playing, run_base, run_stale>>
            /\ IF mop \in {"toggle_playback", "toggle_video"}
               THEN Goto("t_return")
               ELSE Return("None")
       ELSE /\ is_playing' = TRUE
            /\ run_base' = IF is_playing THEN run_base ELSE Len(delivered)
            /\ run_stale' = IF is_playing THEN run_stale ELSE Sampled
            /\ Goto("s_active")
    /\ UNCHANGED <<cap, current_video_path, processing_active, frame_counter,
                   frame_queue, frame_callback, playback_control_callback,
                   video_thread, processing_thread, readers, procs>>
    /\ UNCHANGED <<delivered, notified, loop_errors, guivars, mmvars, dpvars>>

\* start_playback: self.processing_active = True
start_playback_set_active ==
    /\ mpc = "s_active"
    /\ processing_active' = TRUE
    /\ Goto("s_video_thread")
    /\ UNCHANGED <<cap, current_video_path, is_playing, frame_counter,
                   frame_queue, frame_callback, playback_control_callback,
                   video_thread, processing_thread, readers, procs>>
    /\ UNCHANGED <<delivered, notified, run_base, run_stale, loop_errors, guivars, mmvars, dpvars>>

\* A thread created and started on the loop: its first statement is the while test
StartedThread == [pc |-> "check", frame |-> NoFrame, tmp |-> 0]

\* start_playback with a reader thread started whether or not one is alive
start_playback_video_thread_unchecked ==
    /\ mpc = "s_video_thread"
    /\ HasFreeSlot(readers)
    /\ readers' = [readers EXCEPT ![FreeSlot(readers)] = StartedThread]
    /\ video_thread' = FreeSlot(readers)
    /\ mpc' = "s_processing_thread"
    /\ eos' = [EosSeesMain("s_processing_thread") EXCEPT ![FreeSlot(readers)] = NoEos]
    /\ UNCHANGED <<mop, mret, mbranch, marg, mprev, nops>>
    /\ UNCHANGED <<cap, current_video_path, is_playing, processing_active, frame_counter,
                   frame_queue, frame_callback, playback_control_callback,
                   processing_thread, procs>>
    /\ UNCHANGED <<delivered, notified, run_base, run_stale, loop_errors, guivars, mmvars, dpvars>>

\* start_playback: if not self.video_thread or not self.video_thread.is_alive():
\* a thread running _playback_loop is created and started
start_playback_video_thread ==
    /\ mpc = "s_video_thread"
    /\ IF ~is_alive(readers, video_thread)
       THEN /\ HasFreeSlot(readers)
            /\ readers' = [readers EXCEPT ![FreeSlot(readers)] = StartedThread]
            /\ video_thread' = FreeSlot(readers)
            /\ eos' = [EosSeesMain("s_processing_thread") EXCEPT
                          ![FreeSlot(readers)] = NoEos]
       ELSE /\ UNCHANGED <<readers, video_thread>>
            /\ eos' = EosSeesMain("s_processing_thread")
    /\ mpc' = "s_processing_thread"
    /\ UNCHANGED <<mop, mret, mbranch, marg, mprev, nops>>
    /\ UNCHANGED <<cap, current_video_path, is_playing, processing_active, frame_counter,
                   frame_queue, frame_callback, playback_control_callback,
                   processing_thread, procs>>
    /\ UNCHANGED <<delivered, notified, run_base, run_stale, loop_errors, guivars, mmvars, dpvars>>

\* start_playback with a delivery thread started whether or not one is alive
start_playback_processing_thread_unchecked ==
    /\ mpc = "s_processing_thread"
    /\ HasFreeSlot(procs)
    /\ procs' = [procs EXCEPT ![FreeSlot(procs)] = StartedThread]
    /\ processing_thread' = FreeSlot(procs)
    /\ AfterStartStop
    /\ UNCHANGED <<cap, current_video_path, is_playing, processing_active, frame_counter,
                   frame_queue, frame_callback, playback_control_callback,
                   video_thread, readers>>
    /\ UNCHANGED <<delivered, notified, run_base, run_stale, loop_errors, guivars, mmvars, dpvars>>

\* start_playback: if not self.processing_thread or not
\* self.processing_thread.is_alive(): a thread running _processing_loop is
\* created and started; the call returns
start_playback_processing_thread ==
    /\ mpc = "s_processing_thread"
    /\ IF ~is_alive(procs, processing_thread)
       THEN /\ HasFreeSlot(procs)
            /\ procs' = [procs EXCEPT ![FreeSlot(procs)] = StartedThread]
            /\ processing_thread' = FreeSlot(procs)
       ELSE UNCHANGED <<procs, processing_thread>>
    /\ AfterStartStop
    /\ UNCHANGED <<cap, current_video_path, is_playing, processing_active, frame_counter,
                   frame_queue, frame_callback, playback_control_callback,
                   video_thread, readers>>
    /\ UNCHANGED <<delivered, notified, run_base, run_stale, loop_errors, guivars, mmvars, dpvars>>

\* stop_playback that also rewinds the source
stop_playback_set_playing_rewinding ==
    /\ mpc = "p_playing"
    /\ is_playing' = FALSE
    /\ cap' = seek_start(cap)
    /\ Goto("p_active")
    /\ UNCHANGED <<current_video_path, processing_active, frame_counter,
                   frame_queue, frame_callback, playback_control_callback,
                   video_thread, processing_thread, readers, procs>>
    /\ UNCHANGED <<delivered, notified, run_base, run_stale, loop_errors, guivars, mmvars, dpvars>>

\* stop_playback: self.is_playing = False
stop_playback_set_playing ==
    /\ mpc = "p_playing"
    /\ is_playing' = FALSE
    /\ Goto("p_active")
    /\ UNCHANGED <<cap, current_video_path, processing_active, frame_counter,
                   frame_queue, frame_callback, playback_control_callback,
                   video_thread, processing_thread, readers, procs>>
    /\ UNCHANGED <<delivered, notified, run_base, run_stale, loop_errors, guivars, mmvars, dpvars>>

\* stop_playback that also closes the frame source
stop_playback_set_active_releasing ==
    /\ mpc = "p_active"
    /\ processing_active' = FALSE
    /\ cap' = release(cap)
    /\ AfterStartStop
    /\ UNCHANGED <<current_video_path, is_playing, frame_counter,
                   frame_queue, frame_callback, playback_control_callback,
                   video_thread, processing_thread, readers, procs>>
    /\ UNCHANGED <<delivered, notified, run_base, run_stale, loop_errors, guivars, mmvars, dpvars>>

\* stop_playback: self.processing_active = False; then stop_playback returns
stop_playback_set_active ==
    /\ mpc = "p_active"
    /\ processing_active' = FALSE
    /\ AfterStartStop
    /\ UNCHANGED <<cap, current_video_path, is_playing, frame_counter,
                   frame_queue, frame_callback, playback_control_callback,
                   video_thread, processing_thread, readers, procs>>
    /\ UNCHANGED <<delivered, notified, run_base, run_stale, loop_errors, guivars, mmvars, dpvars>>

\* toggle_playback: if not self.cap: return False; if self.is_playing:
\* self.stop_playback() else: self.start_playback()
toggle_playback_check ==
    /\ mpc = "t_check"
    /\ IF ~cap.made
       THEN /\ mbranch' = "nocap"
            /\ mpc' = "idle"
            /\ mret' = "False"
            /\ eos' = EosSeesMain("idle")
       ELSE IF is_playing
       THEN /\ mbranch' = "stop"
            /\ mpc' = "p_playing"
            /\ eos' = EosSeesMain("p_playing")
            /\ UNCHANGED mret
       ELSE /\ mbranch' = "start"
            /\ mpc' = "s_playing"
            /\ eos' = EosSeesMain("s_playing")
            /\ UNCHANGED mret
    /\ UNCHANGED <<mop, marg, mprev, nops>>
    /\ UNCHANGED <<vpstate, delivered, notified, run_base, run_stale, loop_errors, guivars, mmvars, dpvars>>

\* Python's str() of a bool
BoolStr(b) == IF b THEN "True" ELSE "False"

\* toggle_playback that returns the state it meant to reach
toggle_playback_return_intended ==
    /\ mpc = "t_return"
    /\ Return(BoolStr(mbranch = "start"))
    /\ UNCHANGED <<vpstate, delivered, notified, run_base, run_stale, loop_errors, guivars, mmvars, dpvars>>

\* toggle_playback: return self.is_playing; in toggle_video the value is
\* assigned to the local is_playing and the handler goes on
toggle_playback_return ==
    /\ mpc = "t_return"
    /\ IF mop = "toggle_video"
       THEN /\ mret' = BoolStr(is_playing)
            /\ mpc' = "tv_configure"
            /\ eos' = EosSeesMain("tv_configure")
            /\ UNCHANGED <<mop, mbranch, marg, mprev, nops>>
       ELSE Return(BoolStr(is_playing))
    /\ UNCHANGED <<vpstate, delivered, notified, run_base, run_stale, loop_errors, guivars, mmvars, dpvars>>

\* toggle_video: if not self.video_processor.is_video_loaded(): a warning box
\* and return; else is_playing = self.video_processor.toggle_playback()
toggle_video_check ==
    /\ mpc = "tv_check"
    /\ IF cap.made /\ cap.open THEN Goto("t_check") ELSE Return("warning")
    /\ UNCHANGED <<vpstate, delivered, notified, run_base, run_stale, loop_errors, guivars, mmvars, dpvars>>

\* toggle_video: self.play_button.configure(text="Pause" if is_playing else "Play")
toggle_video_configure ==
    /\ mpc = "tv_configure"
    /\ widgets' = [widgets EXCEPT !.play_button.text = PlayLabel(mret = "True")]
    /\ Return("None")
    /\ UNCHANGED <<vpstate, delivered, notified, run_base, run_stale, loop_errors, tk_queue, mmvars, dpvars>>

\* What follows reset_video: in stop_video,
\* self.play_button.configure(text="Play"); the buttons are left alone otherwise
AfterReset ==
    IF mop = "stop_video"
    THEN [widgets EXCEPT !.play_button.text = PlayLabel(FALSE)]
    ELSE widgets

\* reset_video: if self.cap: self.cap.set(cv2.CAP_PROP_POS_FRAMES, 0)
reset_video_position ==
    /\ mpc = "v_position"
    /\ IF cap.made
       THEN cap' = seek_start(cap) /\ Goto("v_counter") /\ UNCHANGED widgets
       ELSE UNCHANGED cap /\ Return("None") /\ widgets' = AfterReset
    /\ UNCHANGED <<current_video_path, is_playing, processing_active, frame_counter,
                   frame_queue, frame_callback, playback_control_callback,
                   video_thread, processing_thread, readers, procs>>
    /\ UNCHANGED <<delivered, notified, run_base, run_stale, loop_errors, tk_queue, mmvars, dpvars>>

\* reset_video: self.frame_counter = 0; then reset_video returns (and
\* stop_video, which only relabels the play button after it)
reset_video_counter ==
    /\ mpc = "v_counter"
    /\ frame_counter' = 0
    /\ Return("None")
    /\ widgets' = AfterReset
    /\ UNCHANGED <<cap, current_video_path, is_playing, processing_active,
                   frame_queue, frame_callback, playback_control_callback,
                   video_thread, processing_thread, readers, procs>>
    /\ UNCHANGED <<delivered, notified, run_base, run_stale, loop_errors, tk_queue, mmvars, dpvars>>

\* cleanup: self.is_playing = False
cleanup_set_playing ==
    /\ mpc = "c_playing"
    /\ is_playing' = FALSE
    /\ Goto("c_active")
    /\ UNCHANGED <<cap, current_video_path, processing_active, frame_counter,
                   frame_queue, frame_callback, playback_control_callback,
                   video_thread, processing_thread, readers, procs>>
    /\ UNCHANGED <<delivered, notified, run_base, run_stale, loop_errors, guivars, mmvars, dpvars>>

\* cleanup: self.processing_active = False
cleanup_set_active ==
    /\ mpc = "c_active"
    /\ processing_active' = FALSE
    /\ Goto("c_join_video")
    /\ UNCHANGED <<cap, current_video_path, is_playing, frame_counter,
                   frame_queue, frame_callback, playback_control_callback,
                   video_thread, processing_thread, readers, procs>>
    /\ UNCHANGED <<delivered, notified, run_base, run_stale, loop_errors, guivars, mmvars, dpvars>>

\* cleanup: if self.video_thread and self.video_thread.is_alive():
\* self.video_thread.join(timeout=1.0). The join returns when the thread has
\* ended or when the second is over, whichever comes first: cleanup goes on with
\* the reader dead or still alive.
cleanup_join_video ==
    /\ mpc = "c_join_video"
    /\ Goto("c_join_processing")
    /\ UNCHANGED <<vpstate, delivered, notified, run_base, run_stale, loop_errors, guivars, mmvars, dpvars>>

\* cleanup: if self.processing_thread and self.processing_thread.is_alive():
\* self.processing_thread.join(timeout=1.0)
cleanup_join_processing ==
    /\ mpc = "c_join_processing"
    /\ Goto("c_release")
    /\ UNCHANGED <<vpstate, delivered, notified, run_base, run_stale, loop_errors, guivars, mmvars, dpvars>>

\* cleanup that leaves the frame source open
cleanup_release_skipped ==
    /\ mpc = "c_release"
    /\ Return("None")
    /\ UNCHANGED <<vpstate, delivered, notified, run_base, run_stale, loop_errors, guivars, mmvars, dpvars>>

\* cleanup: if self.cap: self.cap.release(); then cleanup returns
cleanup_release ==
    /\ mpc = "c_release"
    /\ cap' = IF cap.made THEN release(cap) ELSE cap
    /\ Return("None")
    /\ UNCHANGED <<current_video_path, is_playing, processing_active, frame_counter,
                   frame_queue, frame_callback, playback_control_callback,
                   video_thread, processing_thread, readers, procs>>
    /\ UNCHANGED <<delivered, notified, run_base, run_stale, loop_errors, guivars, mmvars, dpvars>>

\* VideoProcessor.is_video_loaded
is_video_loaded == cap.made /\ cap.open

(***************************************************************************)
(* The reader thread: VideoProcessor._playback_loop                        *)
(***************************************************************************)
\* The reader in slot i moves to statement newpc
ReaderGoto(i, newpc) == readers' = [readers EXCEPT ![i].pc = newpc]

\* The statements of _playback_loop from which the loop goes on to read a frame,
\* as long as is_playing stays True
ReadingLabels == {"check", "read", "count_load", "count_store", "sample"}

\* A while test that looks at the capture handle only
reader_check_handle_only(i) ==
    /\ readers[i].pc = "check"
    /\ ReaderGoto(i, IF cap.made THEN "read" ELSE "return")
    /\ UNCHANGED <<cap, current_video_path, is_playing, processing_active, frame_counter,
                   frame_queue, frame_callback, playback_control_callback,
                   video_thread, processing_thread, procs>>
    /\ UNCHANGED <<mainvars, histvars, guivars, mmvars, dpvars>>

\* while self.is_playing and self.cap
reader_check(i) ==
    /\ readers[i].pc = "check"
    /\ ReaderGoto(i, IF is_playing /\ cap.made THEN "read" ELSE "return")
    /\ UNCHANGED <<cap, current_video_path, is_playing, processing_active, frame_counter,
                   frame_queue, frame_callback, playback_control_callback,
                   video_thread, processing_thread, procs>>
    /\ UNCHANGED <<mainvars, histvars, guivars, mmvars, dpvars>>

\* ret, frame = self.cap.read(); if not ret: the end-of-stream path
reader_read(i) ==
    /\ readers[i].pc = "read"
    /\ IF read_ok(cap)
       THEN /\ readers' = [readers EXCEPT ![i].pc = "count_load",
                                          ![i].frame = read_frame(cap)]
            /\ cap' = read_advance(cap)
            /\ UNCHANGED eos
       ELSE /\ ReaderGoto(i, "eos_playing")
            /\ UNCHANGED cap
            /\ eos' = [eos EXCEPT ![i] = [on |-> TRUE,
                                          nostart |-> mpc \notin StartLabels,
                                          notes |-> 0]]
    /\ UNCHANGED <<current_video_path, is_playing, processing_active, frame_counter,
                   frame_queue, frame_callback, playback_control_callback,
                   video_thread, processing_thread, procs>>
    /\ UNCHANGED <<mainvars, delivered, notified, run_base, run_stale, loop_errors, guivars, mmvars, dpvars>>

\* End of video: self.is_playing = False
reader_eos_playing(i) ==
    /\ readers[i].pc = "eos_playing"
    /\ is_playing' = FALSE
    /\ ReaderGoto(i, "eos_active")
    /\ UNCHANGED <<cap, current_video_path, processing_active, frame_counter,
                   frame_queue, frame_callback, playback_control_callback,
                   video_thread, processing_thread, procs>>
    /\ UNCHANGED <<mainvars, histvars, guivars, mmvars, dpvars>>

\* End of video: self.processing_active = False
reader_eos_active(i) ==
    /\ readers[i].pc = "eos_active"
    /\ processing_active' = FALSE
    /\ ReaderGoto(i, "eos_notify")
    /\ UNCHANGED <<cap, current_video_path, is_playing, frame_counter,
                   frame_queue, frame_callback, playback_control_callback,
                   video_thread, processing_thread, procs>>
    /\ UNCHANGED <<mainvars, histvars, guivars, mmvars, dpvars>>

\* The end-of-stream path without the call of the observer
reader_eos_notify_skipped(i) ==
    /\ readers[i].pc = "eos_notify"
    /\ ReaderGoto(i, "eos_position")
    /\ UNCHANGED <<cap, current_video_path, is_playing, processing_active, frame_counter,
                   frame_queue, frame_callback, playback_control_callback,
                   video_thread, processing_thread, procs>>
    /\ UNCHANGED <<mainvars, histvars, guivars, mmvars, dpvars>>

\* End of video: if self.playback_control_callback:
\* self.playback_control_callback(False)
reader_eos_notify(i) ==
    /\ readers[i].pc = "eos_notify"
    /\ IF playback_control_callback
       THEN /\ notified' = Append(notified, FALSE)
            /\ eos' = [eos EXCEPT ![i].notes = eos[i].notes + 1]
            /\ tk_queue' = root_after(tk_queue, ButtonPost(FALSE))
       ELSE UNCHANGED <<notified, eos, tk_queue>>
    /\ ReaderGoto(i, "eos_position")
    /\ UNCHANGED <<cap, current_video_path, is_playing, processing_active, frame_counter,
                   frame_queue, frame_callback, playback_control_callback,
                   video_thread, processing_thread, procs>>
    /\ UNCHANGED <<mainvars, delivered, run_base, run_stale, loop_errors, widgets, mmvars, dpvars>>

\* End of video: self.playback_control_callback(False) raises. _playback_loop has
\* no try: the exception leaves the loop and the function
reader_eos_notify_raises(i) ==
    /\ readers[i].pc = "eos_notify"
    /\ playback_control_callback
    /\ notified' = Append(notified, FALSE)
    /\ eos' = [eos EXCEPT ![i].notes = eos[i].notes + 1]
    /\ ReaderGoto(i, "raised")
    /\ UNCHANGED <<cap, current_video_path, is_playing, processing_active, frame_counter,
                   frame_queue, frame_callback, playback_control_callback,
                   video_thread, processing_thread, procs>>
    /\ UNCHANGED <<mainvars, delivered, run_base, run_stale, loop_errors, guivars, mmvars, dpvars>>

\* The exception reaches the top of the thread: the traceback is printed and the
\* thread ends
reader_excepthook(i) ==
    /\ readers[i].pc = "raised"
    /\ readers' = [readers EXCEPT ![i] = DeadThread]
    /\ eos' = [eos EXCEPT ![i] = NoEos]
    /\ UNCHANGED <<cap, current_video_path, is_playing, processing_active, frame_counter,
                   frame_queue, frame_callback, playback_control_callback,
                   video_thread, processing_thread, procs>>
    /\ UNCHANGED <<mainvars, delivered, notified, run_base, run_stale, loop_errors, guivars, mmvars, dpvars>>

\* End of video: self.reset_video(): if self.cap:
\* self.cap.set(cv2.CAP_PROP_POS_FRAMES, 0)
reader_eos_position(i) ==
    /\ readers[i].pc = "eos_position"
    /\ IF cap.made
       THEN cap' = seek_start(cap) /\ ReaderGoto(i, "eos_counter")
       ELSE UNCHANGED cap /\ ReaderGoto(i, "return")
    /\ UNCHANGED <<current_video_path, is_playing, processing_active, frame_counter,
                   frame_queue, frame_callback, playback_control_callback,
                   video_thread, processing_thread, procs>>
    /\ UNCHANGED <<mainvars, histvars, guivars, mmvars, dpvars>>

\* End of video: self.reset_video(): self.frame_counter = 0; break
reader_eos_counter(i) ==
    /\ readers[i].pc = "eos_counter"
    /\ frame_counter' = 0
    /\ ReaderGoto(i, "return")
    /\ UNCHANGED <<cap, current_video_path, is_playing, processing_active,
                   frame_queue, frame_callback, playback_control_callback,
                   video_thread, processing_thread, procs>>
    /\ UNCHANGED <<mainvars, histvars, guivars, mmvars, dpvars>>

\* self.frame_counter += 1, the load of the old value
reader_count_load(i) ==
    /\ readers[i].pc = "count_load"
    /\ readers' = [readers EXCEPT ![i].pc = "count_store", ![i].tmp = frame_counter]
    /\ UNCHANGED <<cap, current_video_path, is_playing, processing_active, frame_counter,
                   frame_queue, frame_callback, playback_control_callback,
                   video_thread, processing_thread, procs>>
    /\ UNCHANGED <<mainvars, histvars, guivars, mmvars, dpvars>>

\* self.frame_counter += 1, the store of the new value
reader_count_store(i) ==
    /\ readers[i].pc = "count_store"
    /\ frame_counter' = readers[i].tmp + 1
    /\ readers' = [readers EXCEPT ![i].pc = "sample", ![i].tmp = 0]
    /\ UNCHANGED <<cap, current_video_path, is_playing, processing_active,
                   frame_queue, frame_callback, playback_control_callback,
                   video_thread, processing_thread, procs>>
    /\ UNCHANGED <<mainvars, histvars, guivars, mmvars, dpvars>>

\* A put that takes the item whatever the size of the queue
put_unbounded(q, item) == Append(q, item)

\* queue.Queue.put(item, block=False): the item is dropped when the queue is full
put_nowait(q, item) == IF Len(q) < QueueMaxSize THEN Append(q, item) ELSE q

\* The sampling test with the counter taken before the increment
is_sampled_before_increment(counter) == (counter - 1) % process_every_nth_frame = 0

\* if self.frame_counter % self.process_every_nth_frame == 0
is_sampled(counter) == counter % process_every_nth_frame = 0

\* The sampled frame is put on the queue without blocking (queue.Full is
\* swallowed); time.sleep(1/VIDEO_FPS); back to the while test
reader_sample(i) ==
    /\ readers[i].pc = "sample"
    /\ frame_queue' = IF is_sampled(frame_counter)
                      THEN put_nowait(frame_queue, readers[i].frame)
                      ELSE frame_queue
    /\ readers' = [readers EXCEPT ![i].pc = "check", ![i].frame = NoFrame]
    /\ UNCHANGED <<cap, current_video_path, is_playing, processing_active, frame_counter,
                   frame_callback, playback_control_callback,
                   video_thread, processing_thread, procs>>
    /\ UNCHANGED <<mainvars, histvars, guivars, mmvars, dpvars>>

\* _playback_loop returns and the thread ends
reader_terminate(i) ==
    /\ readers[i].pc = "return"
    /\ readers' = [readers EXCEPT ![i] = DeadThread]
    /\ eos' = [eos EXCEPT ![i] = NoEos]
    /\ UNCHANGED <<cap, current_video_path, is_playing, processing_active, frame_counter,
                   frame_queue, frame_callback, playback_control_callback,
                   video_thread, processing_thread, procs>>
    /\ UNCHANGED <<mainvars, delivered, notified, run_base, run_stale, loop_errors, guivars, mmvars, dpvars>>

(***************************************************************************)
(* The delivery thread: VideoProcessor._processing_loop                    *)
(***************************************************************************)
\* while self.processing_active
proc_check(j) ==
    /\ procs[j].pc = "check"
    /\ procs' = [procs EXCEPT ![j].pc = IF processing_active THEN "get" ELSE "return"]
    /\ UNCHANGED <<cap, current_video_path, is_playing, processing_active, frame_counter,
                   frame_queue, frame_callback, playback_control_callback,
                   video_thread, processing_thread, readers>>
    /\ UNCHANGED <<mainvars, histvars, guivars, mmvars, dpvars>>

\* frame = self.frame_queue.get(timeout=0.1): the oldest frame, or after the
\* timeout on an empty queue queue.Empty and the next iteration
proc_get(j) ==
    /\ procs[j].pc = "get"
    /\ IF frame_queue # <<>>
       THEN /\ procs' = [procs EXCEPT ![j].pc = "callback", ![j].frame = Head(frame_queue)]
            /\ frame_queue' = Tail(frame_queue)
       ELSE /\ procs' = [procs EXCEPT ![j].pc = "check"]
            /\ UNCHANGED frame_queue
    /\ UNCHANGED <<cap, current_video_path, is_playing, processing_active, frame_counter,
                   frame_callback, playback_control_callback,
                   video_thread, processing_thread, readers>>
    /\ UNCHANGED <<mainvars, histvars, guivars, mmvars, dpvars>>

\* A frame callback that runs the detection itself, on the delivery thread
proc_callback_direct(j) ==
    /\ procs[j].pc = "callback"
    /\ delivered' = Append(delivered, procs[j].frame)
    /\ predict
    /\ mm_ncalls' = mm_ncalls + 1
    /\ widgets' = [widgets EXCEPT !.image_label = procs[j].frame]
    /\ procs' = [procs EXCEPT ![j].pc = "check", ![j].frame = NoFrame]
    /\ UNCHANGED <<cap, current_video_path, is_playing, processing_active, frame_counter,
                   frame_queue, frame_callback, playback_control_callback,
                   video_thread, processing_thread, readers>>
    /\ UNCHANGED <<mainvars, notified, eos, run_base, run_stale, loop_errors, tk_queue,
                   set_conf, set_iou, dpvars>>

\* if self.frame_callback: self.frame_callback(frame), which posts the detection
\* to the presentation thread; task_done(); next iteration
proc_callback(j) ==
    /\ procs[j].pc = "callback"
    /\ IF frame_callback
       THEN /\ delivered' = Append(delivered, procs[j].frame)
            /\ tk_queue' = root_after(tk_queue, FramePost(procs[j].frame))
       ELSE UNCHANGED <<delivered, tk_queue>>
    /\ procs' = [procs EXCEPT ![j].pc = "check", ![j].frame = NoFrame]
    /\ UNCHANGED <<cap, current_video_path, is_playing, processing_active, frame_counter,
                   frame_queue, frame_callback, playback_control_callback,
                   video_thread, processing_thread, readers>>
    /\ UNCHANGED <<mainvars, notified, eos, run_base, run_stale, loop_errors, widgets, mmvars, dpvars>>

\* A frame callback whose exception ends the delivery thread
proc_callback_raises_uncaught(j) ==
    /\ procs[j].pc = "callback"
    /\ frame_callback
    /\ delivered' = Append(delivered, procs[j].frame)
    /\ loop_errors' = Append(loop_errors, Len(delivered'))
    /\ procs' = [procs EXCEPT ![j] = DeadThread]
    /\ UNCHANGED <<cap, current_video_path, is_playing, processing_active, frame_counter,
                   frame_queue, frame_callback, playback_control_callback,
                   video_thread, processing_thread, readers>>
    /\ UNCHANGED <<mainvars, notified, eos, run_base, run_stale, guivars, mmvars, dpvars>>

\* self.frame_callback(frame) raises: task_done() is skipped, except Exception
\* prints the error and the loop goes on with its next iteration
proc_callback_raises(j) ==
    /\ procs[j].pc = "callback"
    /\ frame_callback
    /\ delivered' = Append(delivered, procs[j].frame)
    /\ loop_errors' = Append(loop_errors, Len(delivered'))
    /\ procs' = [procs EXCEPT ![j].pc = "check", ![j].frame = NoFrame]
    /\ UNCHANGED <<cap, current_video_path, is_playing, processing_active, frame_counter,
                   frame_queue, frame_callback, playback_control_callback,
                   video_thread, processing_thread, readers>>
    /\ UNCHANGED <<mainvars, notified, eos, run_base, run_stale, guivars, mmvars, dpvars>>

\* _processing_loop returns and the thread ends
proc_terminate(j) ==
    /\ procs[j].pc = "return"
    /\ procs' = [procs EXCEPT ![j] = DeadThread]
    /\ UNCHANGED <<cap, current_video_path, is_playing, processing_active, frame_counter,
                   frame_queue, frame_callback, playback_control_callback,
                   video_thread, processing_thread, readers>>
    /\ UNCHANGED <<mainvars, histvars, guivars, mmvars, dpvars>>

(***************************************************************************)
(* The steps of the application                                            *)
(***************************************************************************)
\* The VideoProcessor calls the handlers of the GUI make, and their arguments
CallLoadVideo(vids) == \E vid \in vids : Call("load_video", vid)
CallStartPlayback == Call("start_playback", "")
CallStopPlayback == Call("stop_playback", "")
CallTogglePlayback == Call("toggle_playback", "")
CallStopVideo == Call("stop_video", "")
CallCleanup == Call("cleanup", "")

MainStep ==
    \/ load_video_release
    \/ load_video_open
    \/ start_playback_set_playing
    \/ start_playback_set_active
    \/ start_playback_video_thread
    \/ start_playback_processing_thread
    \/ stop_playback_set_playing
    \/ stop_playback_set_active
    \/ toggle_playback_check
    \/ toggle_playback_return
    \/ reset_video_position
    \/ reset_video_counter
    \/ cleanup_set_playing
    \/ cleanup_set_active
    \/ cleanup_join_video
    \/ cleanup_join_processing
    \/ cleanup_release

\* The next statement of the reader thread in slot i
_playback_loop(i) ==
    \/ reader_check(i)
    \/ reader_read(i)
    \/ reader_count_load(i)
    \/ reader_count_store(i)
    \/ reader_sample(i)
    \/ reader_eos_playing(i)
    \/ reader_eos_active(i)
    \/ reader_eos_notify(i)
    \/ reader_eos_position(i)
    \/ reader_eos_counter(i)
    \/ reader_terminate(i)

ReaderStep == \E i \in Slots : _playback_loop(i)

\* The next statement of the delivery thread in slot j
_processing_loop(j) ==
    \/ proc_check(j)
    \/ proc_get(j)
    \/ proc_callback(j)
    \/ proc_terminate(j)

ProcStep == \E j \in Slots : _processing_loop(j)

(***************************************************************************)
(* DetectionProcessor: the statistics of a detection batch and the texts   *)
(* shown for it.  A detection is its class name and its confidence in      *)
(* hundredths; a text is the sequence of its lines, a line being its fixed *)
(* wording and the values formatted into it.                               *)
(***************************************************************************)
\* The longest detection batch drawn
MaxDetections == 3

\* The class names and the confidences (hundredths) of the detections drawn
ClassNames == {"person", "car"}
Confidences == {50, 75, 100}

\* results.pandas().xyxy[0]: the rows of one inference
Batches == UNION {[1..n -> [name : ClassNames, confidence : Confidences]] : n \in 0..MaxDetections}

\* The orders in which equal counts may come out of value_counts
TieOrders == {o \in [1..Cardinality(ClassNames) -> ClassNames] :
                 \A c \in ClassNames : \E i \in DOMAIN o : o[i] = c}

\* No statistics computed yet, no text formatted yet
NoStats == [total_detections |-> -1, class_counts |-> <<>>, confidence_stats |-> <<>>]
NoText == <<>>

\* One line of a text
Line(text, name, n, m) == [text |-> text, name |-> name, n |-> n, m |-> m]

\* detections['name']
Names(detections) == [i \in DOMAIN detections |-> detections[i].name]

\* The number of rows carrying a label
CountOf(label, names) == Cardinality({i \in DOMAIN names : names[i] = label})

\* The place of a label in a tie order
Place(label, order) == CHOOSE i \in DOMAIN order : order[i] = label

\* The labels with their counts, most frequent first
RECURSIVE by_count(_, _, _)
by_count(labels, names, order) ==
    IF labels = {} THEN <<>>
    ELSE LET first == CHOOSE l \in labels : \A k \in labels \ {l} :
                          \/ CountOf(l, names) > CountOf(k, names)
                          \/ /\ CountOf(l, names) = CountOf(k, names)
                             /\ Place(l, order) < Place(k, order)
         IN  <<<<first, CountOf(first, names)>>>> \o by_count(labels \ {first}, names, order)

\* The labels in the order in which they first appear in the rows
RECURSIVE first_seen(_)
first_seen(names) ==
    IF names = <<>> THEN <<>>
    ELSE LET front == first_seen(SubSeq(names, 1, Len(names) - 1))
             last == names[Len(names)]
         IN  IF \E i \in DOMAIN front : front[i] = last THEN front ELSE Append(front, last)

\* A count of the labels that keeps the order of the rows
value_counts_unsorted(names, order) ==
    [i \in DOMAIN first_seen(names) |->
        <<first_seen(names)[i], CountOf(first_seen(names)[i], names)>>]

\* Series.value_counts().to_dict(): the labels with their counts, sorted by
\* count in descending order, equal counts in an order pandas does not fix
value_counts(names, order) ==
    by_count({names[i] : i \in DOMAIN names}, names, order)

\* a / b rounded to the nearest integer, as the format specifications round
RoundDiv(a, b) == (2 * a + b) \div (2 * b)

RECURSIVE SumOf(_)
SumOf(q) == IF q = <<>> THEN 0 ELSE q[1] + SumOf(Tail(q))

\* detections['confidence'].mean(), .min(), .max(): the mean in thousandths
confidence_stats(detections) ==
    LET conf == [i \in DOMAIN detections |-> detections[i].confidence]
    IN  [average |-> RoundDiv(10 * SumOf(conf), Len(conf)),
         min |-> CHOOSE c \in {conf[i] : i \in DOMAIN conf} : \A i \in DOMAIN conf : c <= conf[i],
         max |-> CHOOSE c \in {conf[i] : i \in DOMAIN conf} : \A i \in DOMAIN conf : c >= conf[i]]

\* generate_detection_stats
generate_detection_stats(detections, order) ==
    IF Len(detections) = 0
    THEN [total_detections |-> 0, class_counts |-> <<>>, confidence_stats |-> <<>>]
    ELSE [total_detections |-> Len(detections),
          class_counts |-> value_counts(Names(detections), order),
          confidence_stats |-> confidence_stats(detections)]

\* The fixed text for a batch without detections
NoDetectionsMessage ==
    <<Line("No detections found. Try adjusting the confidence threshold or using a different image.",
           "", 0, 0)>>

\* format_detection_results: the fixed message for an empty batch, else the
\* header and one numbered entry per row with its class and its confidence in
\* thousandths (the bounding box is not part of a detection here)
format_detection_results(detections) ==
    IF Len(detections) = 0
    THEN NoDetectionsMessage
    ELSE <<Line("DETECTION RESULTS", "", 0, 0)>> \o
         [i \in DOMAIN detections |->
             Line("Detection #, Class, Confidence", detections[i].name, i,
                  10 * detections[i].confidence)]

\* The fixed text for statistics with no detection
ZeroTotalMessage == <<Line("Total Detections", "", 0, 0)>>

\* The lines of the class distribution: the count and its share of the total
\* in tenths of a percent
ClassLines(st) ==
    [i \in DOMAIN st.class_counts |->
        Line("class", st.class_counts[i][1], st.class_counts[i][2],
             RoundDiv(st.class_counts[i][2] * 1000, st.total_detections))]

\* The lines of the confidence statistics; a dictionary without the keys
\* raises KeyError
ConfidenceLines(st) ==
    IF DOMAIN st.confidence_stats = {}
    THEN <<Line("KeyError", "average", 0, 0)>>
    ELSE <<Line("Confidence Stats", "", 0, 0),
           Line("Average", "", st.confidence_stats.average, 0),
           Line("Range", "", 10 * st.confidence_stats.min, 10 * st.confidence_stats.max)>>

\* format_statistics_text that starts with the class distribution whatever the total
format_statistics_text_unguarded(st) ==
    <<Line("Total Detections", "", st.total_detections, 0),
      Line("Class Distribution", "", 0, 0)>> \o ClassLines(st) \o ConfidenceLines(st)

\* format_statistics_text: the fixed message when the total is 0, else the
\* total, one line per class and the confidence statistics
format_statistics_text(st) ==
    IF st.total_detections = 0
    THEN ZeroTotalMessage
    ELSE <<Line("Total Detections", "", st.total_detections, 0),
           Line("Class Distribution", "", 0, 0)>> \o ClassLines(st) \o ConfidenceLines(st)

\* DetectionProcessor before any inference
DetectionProcessorInit ==
    /\ results = <<>>
    /\ stats = NoStats
    /\ result_text = NoText
    /\ stats_text = NoText

\* stats = self.detection_processor.generate_detection_stats(results)
GenerateStats ==
    /\ stats.total_detections < 0
    /\ \E order \in TieOrders : stats' = generate_detection_stats(results, order)
    /\ UNCHANGED <<results, result_text, stats_text, mmvars, vpvars>>

\* result_text = self.detection_processor.format_detection_results(results)
FormatResults ==
    /\ result_text = NoText
    /\ result_text' = format_detection_results(results)
    /\ UNCHANGED <<results, stats, stats_text, mmvars, vpvars>>

\* stats_text = self.detection_processor.format_statistics_text(stats)
FormatStatistics ==
    /\ stats.total_detections >= 0
    /\ stats_text = NoText
    /\ stats_text' = format_statistics_text(stats)
    /\ UNCHANGED <<results, stats, result_text, mmvars, vpvars>>

(***************************************************************************)
(* Specifications                                                          *)
(***************************************************************************)
InitMM == ModelManagerInit /\ VideoProcessorInit /\ DetectionProcessorInit

\* The statistics and the texts of any detection batch
InitFormatter ==
    /\ ModelManagerInit
    /\ VideoProcessorInit
    /\ results \in Batches
    /\ stats = NoStats
    /\ result_text = NoText
    /\ stats_text = NoText

NextFormatter == GenerateStats \/ FormatResults \/ FormatStatistics

SpecFormatter == InitFormatter /\ [][NextFormatter]_vars

NextMM == LoadModel \/ UpdateConfidence \/ UpdateIou \/ Predict

\* The ModelManager under any sequence of calls
SpecMM == InitMM /\ [][NextMM]_vars

\* The application after construction, no model auto-loaded
Init == ModelManagerInit /\ model = NoModel /\ VideoProcessorInit /\ DetectionProcessorInit

Next ==
    \/ CallLoadVideo({"clip.mp4", "damaged.mp4", "broken.avi"})
    \/ CallStartPlayback
    \/ CallStopPlayback
    \/ CallTogglePlayback
    \/ CallStopVideo
    \/ CallCleanup
    \/ MainStep
    \/ ReaderStep
    \/ ProcStep

\* The VideoProcessor driven by the presentation thread, with its two loops
Spec == Init /\ [][Next]_vars

\* get_first_frame: if not self.cap: return None; ret, frame = self.cap.read().
\* The frame read is named by its source index
get_first_frame_read ==
    /\ mpc = "g_read"
    /\ IF ~cap.made
       THEN Return("None") /\ UNCHANGED cap
       ELSE /\ mret' = IF read_ok(cap) THEN ToString(read_frame(cap).idx) ELSE "None"
            /\ cap' = IF read_ok(cap) THEN read_advance(cap) ELSE cap
            /\ mpc' = "g_seek"
            /\ eos' = EosSeesMain("g_seek")
            /\ UNCHANGED <<mop, mbranch, marg, mprev, nops>>
    /\ UNCHANGED <<current_video_path, is_playing, processing_active, frame_counter,
                   frame_queue, frame_callback, playback_control_callback,
                   video_thread, processing_thread, readers, procs>>
    /\ UNCHANGED <<delivered, notified, run_base, run_stale, loop_errors, guivars, mmvars, dpvars>>

\* get_first_frame: if ret: self.cap.set(cv2.CAP_PROP_POS_FRAMES, 0); return
\* frame; else return None
get_first_frame_seek ==
    /\ mpc = "g_seek"
    /\ cap' = IF mret # "None" THEN seek_start(cap) ELSE cap
    /\ Return(mret)
    /\ UNCHANGED <<current_video_path, is_playing, processing_active, frame_counter,
                   frame_queue, frame_callback, playback_control_callback,
                   video_thread, processing_thread, readers, procs>>
    /\ UNCHANGED <<delivered, notified, run_base, run_stale, loop_errors, guivars, mmvars, dpvars>>

\* get_first_frame() called on a Stopped engine, after any call but itself
CallGetFirstFrame ==
    /\ mpc = "idle"
    /\ mop # "get_first_frame"
    /\ ~is_playing
    /\ ~processing_active
    /\ \A i \in Slots : readers[i].pc = "dead" /\ procs[i].pc = "dead"
    /\ mop' = "get_first_frame"
    /\ mprev' = mop
    /\ mpc' = Entry("get_first_frame")
    /\ mbranch' = "none"
    /\ eos' = EosSeesMain(Entry("get_first_frame"))
    /\ UNCHANGED <<marg, nops>>
    /\ UNCHANGED <<mret, vpstate, delivered, notified, run_base, run_stale, loop_errors, guivars, mmvars, dpvars>>

NextFirstFrame == Next \/ CallGetFirstFrame \/ get_first_frame_read \/ get_first_frame_seek

\* The VideoProcessor as in Spec, get_first_frame() called whenever the engine
\* is Stopped
SpecFirstFrame == Init /\ [][NextFirstFrame]_vars

\* cleanup() called a second time, right after cleanup() has returned
CleanupAgain ==
    /\ mpc = "idle"
    /\ mop = "cleanup"
    /\ mprev # "cleanup"
    /\ mprev' = "cleanup"
    /\ mpc' = Entry("cleanup")
    /\ mbranch' = "none"
    /\ eos' = EosSeesMain(Entry("cleanup"))
    /\ UNCHANGED <<mop, marg, nops>>
    /\ UNCHANGED <<mret, vpstate, delivered, notified, run_base, run_stale, loop_errors, guivars, mmvars, dpvars>>

NextCleanup == Next \/ CleanupAgain

\* The VideoProcessor as in Spec, every cleanup() followed by a second one
SpecCleanup == Init /\ [][NextCleanup]_vars

\* The same with the scheduling the threads have: every thread that can take a
\* step takes one in the end, and a call the presentation thread is in goes on
SpecFair ==
    /\ Spec
    /\ WF_vars(MainStep)
    /\ \A i \in Slots : WF_vars(_playback_loop(i)) /\ WF_vars(_processing_loop(i))

\* The steps of load_video and start_playback alone
LoadAndStartStep ==
    \/ load_video_release
    \/ load_video_open
    \/ start_playback_set_playing
    \/ start_playback_set_active
    \/ start_playback_video_thread
    \/ start_playback_processing_thread

\* The presentation thread loads ten_frames.mp4 and then starts playback, once
TenFramesLoad == nops = 0 /\ Call("load_video", "ten_frames.mp4")
TenFramesStart == nops = 1 /\ Call("start_playback", "")

NextTenFrames ==
    \/ TenFramesLoad
    \/ TenFramesStart
    \/ LoadAndStartStep
    \/ ReaderStep
    \/ ProcStep

\* One playback of the ten-frame video from its first frame, with no stop
SpecTenFrames == Init /\ [][NextTenFrames]_vars

\* _detect_and_display_image: predict, then the annotated image is displayed;
\* an exception (no model loaded) ends in an error box and nothing is displayed
_detect_and_display_image(image) ==
    /\ predict
    /\ mm_ncalls' = mm_ncalls + 1
    /\ widgets' = IF is_loaded THEN [widgets EXCEPT !.image_label = image] ELSE widgets
    /\ UNCHANGED <<set_conf, set_iou>>

\* The main loop of the presentation thread, between two handlers, runs the
\* callback posted first: the detection on a frame, or the relabelling of the
\* play button
TkDispatch ==
    /\ mpc = "idle"
    /\ tk_queue # <<>>
    /\ tk_queue' = Tail(tk_queue)
    /\ IF Head(tk_queue).kind = "frame"
       THEN _detect_and_display_image(Head(tk_queue).frame)
       ELSE /\ widgets' = [widgets EXCEPT
                              !.play_button.text = PlayLabel(Head(tk_queue).playing)]
            /\ UNCHANGED mmvars
    /\ UNCHANGED <<vpstate, mainvars, histvars, dpvars>>

NextTenFramesGui == NextTenFrames \/ TkDispatch

\* One playback of the ten-frame video in the window, with or without a model
\* loaded, the main loop running the posted callbacks
SpecTenFramesGui == InitMM /\ [][NextTenFramesGui]_vars

\* The user loads clip.mp4, then presses the play button and the stop button
PlayButtonLoad == nops = 0 /\ Call("load_video", "clip.mp4")
PressPlay == nops >= 1 /\ Call("toggle_video", "")
PressStop == nops >= 1 /\ Call("stop_video", "")

\* The statements of toggle_video and stop_video
PlayButtonStep ==
    \/ toggle_video_check
    \/ toggle_playback_check
    \/ stop_playback_set_playing
    \/ stop_playback_set_active
    \/ toggle_playback_return
    \/ toggle_video_configure
    \/ reset_video_position
    \/ reset_video_counter

NextPlayButton ==
    \/ PlayButtonLoad
    \/ PressPlay
    \/ PressStop
    \/ LoadAndStartStep
    \/ PlayButtonStep
    \/ ReaderStep
    \/ ProcStep
    \/ TkDispatch

\* The play and stop buttons pressed on a loaded video, the main loop running
\* the posted callbacks between the handlers
SpecPlayButton == Init /\ [][NextPlayButton]_vars

(***************************************************************************)
(* The load handlers of the window: load_model, load_image, load_video     *)
(***************************************************************************)
\* The handlers, named by the button that runs them
LoadHandlers == {"load_model_btn", "load_image_btn", "load_video_btn"}

\* The label a handler gives its button while it works
BusyLabel(btn) == IF btn = "load_image_btn" THEN "Processing..." ELSE "Loading..."

\* cv2.imread returns an image (not None)
ImageReadable(path) == path = "photo.jpg"

\* The parts of the VideoProcessor a load handler leaves alone
vprest == <<is_playing, processing_active, frame_counter, frame_queue, frame_callback,
            playback_control_callback, video_thread, processing_thread, readers, procs>>

\* The handler starts: load_image and load_video return after a warning when no
\* model is loaded; a cancelled file dialog (no path) ends the handler
handler_check ==
    /\ mpc = "h_check"
    /\ IF mop # "load_model_btn" /\ ~is_loaded
       THEN Return("warning")
       ELSE IF marg = <<>>
       THEN Return("None")
       ELSE Goto("h_disable")
    /\ UNCHANGED <<vpstate, delivered, notified, run_base, run_stale, loop_errors, guivars, mmvars, dpvars>>

\* try: the button is configured with the busy label and state="disabled";
\* self.root.update()
handler_disable ==
    /\ mpc = "h_disable"
    /\ widgets' = [widgets EXCEPT ![mop] = Button(BusyLabel(mop), "disabled")]
    /\ Goto("h_body")
    /\ UNCHANGED <<vpstate, delivered, notified, run_base, run_stale, loop_errors, tk_queue, mmvars, dpvars>>

\* The handler's work is done, normally or by an exception caught by
\* except Exception: the finally clause is next
HandlerDone(how) ==
    /\ mpc' = "h_finally"
    /\ mbranch' = how
    /\ eos' = EosSeesMain("h_finally")
    /\ UNCHANGED <<mop, mret, marg, mprev, nops>>

\* load_model: self.model_manager.load_model(file_path); False raises
\* Exception("Failed to load model")
handler_load_model ==
    /\ mpc = "h_body"
    /\ mop = "load_model_btn"
    /\ \E ok \in BOOLEAN :
          /\ ok => marg \in ExistingModelPaths
          /\ load_model(marg, ok)
          /\ HandlerDone(IF ok THEN "done" ELSE "except")
    /\ mm_ncalls' = mm_ncalls + 1
    /\ UNCHANGED <<set_conf, set_iou>>
    /\ UNCHANGED <<vpstate, delivered, notified, run_base, run_stale, loop_errors, guivars, dpvars>>

\* load_image: image = cv2.imread(file_path); image.copy() raises on None;
\* self._detect_and_display_image(image)
handler_load_image ==
    /\ mpc = "h_body"
    /\ mop = "load_image_btn"
    /\ IF ImageReadable(marg[1])
       THEN /\ _detect_and_display_image([vid |-> marg[1], idx |-> 0])
            /\ HandlerDone("done")
       ELSE /\ UNCHANGED <<mmvars, widgets>>
            /\ HandlerDone("except")
    /\ UNCHANGED <<vpstate, delivered, notified, run_base, run_stale, loop_errors, tk_queue, dpvars>>

\* load_video: self.video_processor.load_video(file_path); on True
\* get_first_frame() (a read and the seek back to frame 0) and detection on the
\* frame; on False Exception("Could not open video file")
handler_load_video ==
    /\ mpc = "h_body"
    /\ mop = "load_video_btn"
    /\ cap' = VideoCapture(marg[1])
    /\ IF cap'.open
       THEN /\ current_video_path' = marg[1]
            /\ IF read_ok(cap')
               THEN _detect_and_display_image(read_frame(cap'))
               ELSE UNCHANGED <<mmvars, widgets>>
            /\ HandlerDone("done")
       ELSE /\ UNCHANGED <<current_video_path, mmvars, widgets>>
            /\ HandlerDone("except")
    /\ UNCHANGED <<vprest, delivered, notified, run_base, run_stale, loop_errors, tk_queue, dpvars>>

\* A finally clause that leaves the button as it is
handler_finally_skipped ==
    /\ mpc = "h_finally"
    /\ Return(mbranch)
    /\ UNCHANGED <<vpstate, delivered, notified, run_base, run_stale, loop_errors, guivars, mmvars, dpvars>>

\* finally: the button is configured with its label and state="normal"
handler_finally ==
    /\ mpc = "h_finally"
    /\ widgets' = [widgets EXCEPT ![mop] = InitialWidgets[mop]]
    /\ Return(mbranch)
    /\ UNCHANGED <<vpstate, delivered, notified, run_base, run_stale, loop_errors, tk_queue, mmvars, dpvars>>

\* The user presses a load button and picks a file, or cancels the dialog
PressLoadButton ==
    \E btn \in LoadHandlers :
        \E path \in {<<>>} \cup (IF btn = "load_model_btn" THEN ModelPaths
                                 ELSE IF btn = "load_image_btn"
                                 THEN {<<"photo.jpg">>, <<"notes.txt">>}
                                 ELSE {<<"clip.mp4">>, <<"broken.avi">>}) :
            /\ mpc = "idle"
            /\ nops < MaxOps
            /\ mop' = btn
            /\ mprev' = mop
            /\ marg' = path
            /\ mpc' = "h_check"
            /\ mbranch' = "none"
            /\ nops' = nops + 1
            /\ UNCHANGED <<mret, vpstate, histvars, guivars, mmvars, dpvars>>

HandlerStep ==
    \/ handler_check
    \/ handler_disable
    \/ handler_load_model
    \/ handler_load_image
    \/ handler_load_video
    \/ handler_finally

NextHandlers == PressLoadButton \/ HandlerStep

\* The window under its load buttons
SpecHandlers == InitMM /\ [][NextHandlers]_vars

\* A callback raises
CallbackRaises ==
    \E i \in Slots :
        \/ proc_callback_raises(i)
        \/ reader_eos_notify_raises(i)
        \/ reader_excepthook(i)

NextTenFramesRaising == NextTenFrames \/ CallbackRaises

\* One playback of the ten-frame video with callbacks that may raise
SpecTenFramesRaising == Init /\ [][NextTenFramesRaising]_vars

\* The presentation thread loads long.mp4 and then starts playback, once
LongVideoLoad == nops = 0 /\ Call("load_video", "long.mp4")
LongVideoStart == nops = 1 /\ Call("start_playback", "")

NextLongVideo ==
    \/ LongVideoLoad
    \/ LongVideoStart
    \/ LoadAndStartStep
    \/ ReaderStep
    \/ ProcStep

\* One playback of the long video, the delivery loop as slow as it may be
SpecLongVideo == Init /\ [][NextLongVideo]_vars

(***************************************************************************)
(* Claims about the ModelManager (checked under SpecMM)                    *)
(***************************************************************************)
\* The step is a ModelManager call named op
MMCall(op) == mm_ncalls' = mm_ncalls + 1 /\ mm_ret'.op = op

\* C2: whenever predict() has run the backend, the backend ran with conf equal to
\* the argument of the latest update_confidence and iou equal to the argument of
\* the latest update_iou (the defaults if there was none), whether the thresholds
\* were set before or after load_model().
C2_PredictPassesLatestThresholds ==
    (mm_ret.op = "predict" /\ mm_ret.val = "results") =>
        /\ backend_calls # <<>>
        /\ backend_calls[Len(backend_calls)] = [conf |-> set_conf, iou |-> set_iou]

\* C2 happens: a predict ran the backend after both thresholds were moved off
\* their defaults, to different values.
C2_Witness ==
    /\ mm_ret = [op |-> "predict", val |-> "results"]
    /\ set_conf = 10
    /\ set_iou = 100
    /\ backend_calls[Len(backend_calls)] = [conf |-> 10, iou |-> 100]

\* C3: a predict() made while no model is loaded raises the RuntimeError
\* 'No model loaded', runs no inference, and leaves the model, the model path
\* and both thresholds as they were.
C3_PredictWithoutModelFailsFast ==
    [][ (MMCall("predict") /\ ~model.loaded) =>
            /\ mm_ret'.val = "RuntimeError: No model loaded"
            /\ backend_calls' = backend_calls
            /\ model' = model
            /\ model_path' = model_path
            /\ confidence_threshold' = confidence_threshold
            /\ iou_threshold' = iou_threshold ]_vars

\* C3 happens: predict raised with thresholds that had been moved.
C3_Witness ==
    /\ mm_ret = [op |-> "predict", val |-> "RuntimeError: No model loaded"]
    /\ ~model.loaded
    /\ confidence_threshold # DEFAULT_CONFIDENCE

\* C4: every load_model() returns True or False (it never raises); one that
\* returns False leaves the model, the model path (so get_model_name() and
\* is_loaded()) and both thresholds unchanged, and a load of a file that does not
\* exist returns False.
C4_FailedLoadKeepsModel ==
    [][ MMCall("load_model") =>
            /\ mm_ret'.val \in {"True", "False"}
            /\ (mm_ret'.val = "True") => /\ model'.loaded
                                         /\ model_path' \in ExistingModelPaths
            /\ (mm_ret'.val = "False") =>
                    /\ model' = model
                    /\ model_path' = model_path
                    /\ get_model_name' = get_model_name
                    /\ is_loaded' = is_loaded
                    /\ confidence_threshold' = confidence_threshold
                    /\ iou_threshold' = iou_threshold ]_vars

\* C4 happens: a load failed while weights/yolov5s.pt was loaded, and the
\* manager still reports it.
C4_Witness ==
    /\ mm_ret = [op |-> "load_model", val |-> "False"]
    /\ is_loaded
    /\ get_model_name = "yolov5s.pt"

\* C5: the stored confidence and IoU thresholds, and the conf and iou every
\* inference ran with, lie in [0,1] (0..100 hundredths), whatever arguments
\* update_confidence() and update_iou() were given.
C5_ThresholdsInUnitRange ==
    /\ confidence_threshold \in 0..100
    /\ iou_threshold \in 0..100
    /\ \A k \in 1..Len(backend_calls) :
          backend_calls[k].conf \in 0..100 /\ backend_calls[k].iou \in 0..100

(***************************************************************************)
(* Claims about the VideoProcessor (checked under Spec, C6 under           *)
(* SpecTenFrames)                                                          *)
(***************************************************************************)
\* The step is a statement of the presentation thread
MainStatement == mpc' # mpc

\* No reader and no delivery thread is running
AllThreadsDead == \A i \in Slots : readers[i].pc = "dead" /\ procs[i].pc = "dead"

IsPrefix(s, t) == Len(s) <= Len(t) /\ SubSeq(t, 1, Len(s)) = s

\* C1: whenever is_playing is True, with a source open and the presentation
\* thread between two calls, a reader thread is alive that will read the frame
\* source again or is about to clear the flag after a failed read: the flag is
\* never left True with no reader to honour it.
C1_PlayingImpliesReaderReads ==
    (mpc = "idle" /\ is_playing /\ cap.open) =>
        \E i \in Slots : readers[i].pc \in ReadingLabels \cup {"eos_playing"}

\* The frame of ten_frames.mp4 with 0-based source index idx
TenFrame(idx) == [vid |-> "ten_frames.mp4", idx |-> idx]

\* One playback of ten_frames.mp4 from position 0 has run to its end
TenFramesRunEnded == notified # <<>> /\ AllThreadsDead

\* C6 as stated: when one playback of the ten-frame source from position 0 with
\* stride 3 has ended with every sampled frame taken from the buffer, the frames
\* passed to the frame callback are those with 0-based source indices 3, 6 and 9.
C6_DeliversFrames369 ==
    (TenFramesRunEnded /\ frame_queue = <<>>) =>
        delivered = <<TenFrame(3), TenFrame(6), TenFrame(9)>>

\* C6 amended: in one playback of the ten-frame source from position 0 with
\* stride 3 and no stop, the frames passed to the frame callback are, in order,
\* the frames with 0-based source indices 2, 5 and 8 (the 3rd, 6th and 9th read):
\* at any time a prefix of them, and when the run has ended all of them but those
\* still in the buffer.
C6_DeliversFrames258 ==
    /\ IsPrefix(delivered, <<TenFrame(2), TenFrame(5), TenFrame(8)>>)
    /\ TenFramesRunEnded =>
          delivered \o frame_queue = <<TenFrame(2), TenFrame(5), TenFrame(8)>>

\* C6 happens: the run has ended and all three sampled frames were delivered.
C6_Witness ==
    /\ TenFramesRunEnded
    /\ frame_queue = <<>>
    /\ Len(delivered) = 3

\* C7: a reader whose read failed (exhaustion or a failed decode), with no
\* statement of start_playback run or pending since, is about to terminate with
\* is_playing and processing_active False, the playback-state observer called
\* exactly once (with False) by it, and the source position and frame_counter at 0.
C7_EndOfStreamStopsAndRewinds ==
    \A i \in Slots :
        (readers[i].pc = "return" /\ eos[i].on /\ eos[i].nostart) =>
            /\ ~is_playing
            /\ ~processing_active
            /\ eos[i].notes = 1
            /\ notified # <<>> /\ notified[Len(notified)] = FALSE
            /\ cap.pos = 0
            /\ frame_counter = 0

\* C7 happens: the reader ran clip.mp4 to exhaustion and is about to terminate.
C7_Witness ==
    \E i \in Slots :
        /\ readers[i].pc = "return"
        /\ eos[i].on /\ eos[i].nostart
        /\ cap.vid = "clip.mp4" /\ cap.open
        /\ delivered # <<>>

\* stop_playback has returned, called directly or by toggle_playback
StopReturned ==
    /\ mpc = "idle"
    /\ \/ mop = "stop_playback"
       \/ mop = "toggle_playback" /\ mbranch = "stop"

ToggleReturned == mpc = "idle" /\ mop = "toggle_playback"

\* C10 as stated: toggle_playback() returns False with no source, and with a
\* source open False when it was called while Playing and True when it was
\* called while Stopped.
C10_ToggleReturnsFlippedState ==
    ToggleReturned =>
        /\ mbranch = "nocap" => mret = "False"
        /\ (mbranch = "stop" /\ cap.open) => mret = "False"
        /\ (mbranch = "start" /\ cap.open) => mret = "True"

\* C10 amended: toggle_playback() with no source returns False and changes
\* nothing; with a source it runs stop_playback() when is_playing is True and
\* start_playback() when it is False, and returns the value is_playing has when
\* it returns: False after the stop, and True after the start unless a reader
\* loop cleared the flag at end-of-stream in between.
C10_ToggleReturnsFlag ==
    /\ [](ToggleReturned =>
            /\ mbranch \in {"nocap", "stop", "start"}
            /\ mbranch = "nocap" => mret = "False" /\ ~cap.made
            /\ mbranch = "stop" => mret = "False"
            /\ mbranch = "start" =>
                  /\ video_thread # 0 /\ processing_thread # 0
                  /\ mret = "True" \/ notified # <<>>
                       \/ \E i \in Slots : readers[i].pc \in {"eos_active", "eos_notify"})
    /\ [][ (mpc = "t_return" /\ MainStatement) =>
                mret' = BoolStr(is_playing) /\ vpstate' = vpstate ]_vars
    /\ [][ (mpc = "t_check" /\ MainStatement) =>
                /\ vpstate' = vpstate
                /\ mbranch' = IF ~cap.made THEN "nocap"
                              ELSE IF is_playing THEN "stop" ELSE "start" ]_vars

\* C10 happens: a toggle while Playing, after frames were read, stopped the
\* playback and returned False.
C10_Witness ==
    /\ ToggleReturned
    /\ mbranch = "stop"
    /\ mret = "False"
    /\ ~is_playing
    /\ cap.pos > 0

\* C11: the buffer never holds more than 10 frames; a reader that offers a
\* sampled frame to a full buffer leaves the buffer as it is, dropping the frame,
\* and is back at its while test after that one step; and a reader at the put is
\* never kept waiting, whatever the delivery loop does.
C11_FullBufferDropsFrame ==
    /\ [](Len(frame_queue) <= QueueMaxSize)
    /\ [][ \A i \in Slots :
              (/\ readers[i].pc = "sample"
               /\ readers'[i].pc # "sample"
               /\ is_sampled(frame_counter)
               /\ Len(frame_queue) = QueueMaxSize) =>
                  /\ frame_queue' = frame_queue
                  /\ readers'[i].pc = "check"
                  /\ cap' = cap ]_vars
    /\ [](\A i \in Slots : readers[i].pc = "sample" => ENABLED reader_sample(i))

\* C11 happens: eleven frames were sampled and none taken by the delivery loop;
\* ten are in the buffer, the eleventh was dropped and the reader is back at its
\* while test.
C11_Witness ==
    /\ Len(frame_queue) = QueueMaxSize
    /\ frame_counter = (QueueMaxSize + 1) * process_every_nth_frame
    /\ delivered = <<>>
    /\ \A j \in Slots : procs[j].frame = NoFrame
    /\ \E i \in Slots : readers[i].pc = "check"

\* The frames passed to the frame callback since the current run started
RunDelivered == SubSeq(delivered, run_base + 1, Len(delivered))

\* C12: while a playback run is going on (is_playing has been True since its
\* start), the frames passed to the frame callback since the run started have
\* non-decreasing source indices.
C12_RunDeliversInSourceOrder ==
    is_playing =>
        \A k \in 1..(Len(RunDelivered) - 1) :
            RunDelivered[k].idx <= RunDelivered[k + 1].idx

\* stop_playback has run to its end, called directly, by toggle_playback or by
\* the GUI's stop_video
Stopped ==
    /\ mop \in {"stop_playback", "toggle_playback", "stop_video"}
    /\ mop = "toggle_playback" => mbranch = "stop"
    /\ mpc \notin StopLabels \cup {"t_check"}

\* C13: once stop_playback() has run, both loops terminate unless a later
\* start_playback() comes first; a reader begins a read only with is_playing True
\* and a delivery loop begins a get only with processing_active True, so that
\* after the stop the reader makes no read but the one it was in (at most one
\* reader is at its read) and the delivery loop no get and callback but the one
\* it was in.
C13_StopTerminatesLoops ==
    /\ [](Stopped => <>(AllThreadsDead \/ mpc \in StartLabels))
    /\ [][ \A i \in Slots :
              (readers[i].pc # "read" /\ readers'[i].pc = "read") => is_playing ]_vars
    /\ [][ \A j \in Slots :
              (procs[j].pc # "get" /\ procs'[j].pc = "get") => processing_active ]_vars
    /\ [](Cardinality({i \in Slots : readers[i].pc = "read"}) <= 1)
    /\ [](Cardinality({j \in Slots : procs[j].pc \in {"get", "callback"}}) <= 1)

\* C13 happens: playback was stopped in mid-stream after frames were delivered,
\* and both loops have terminated.
C13_Witness ==
    /\ mop = "stop_playback"
    /\ mpc = "idle"
    /\ AllThreadsDead
    /\ video_thread # 0
    /\ processing_thread # 0
    /\ delivered # <<>>
    /\ notified = <<>>
    /\ ~is_playing

\* C14: when the presentation thread is about to move the position of the
\* capture handle (reset_video, as in the GUI's stop_video) or to release it
\* (load_video, cleanup), no reader thread is inside its loop with a read of the
\* handle in flight.
C14_HandleUntouchedDuringRead ==
    (mpc \in {"v_position", "l_release", "c_release"} /\ cap.made) =>
        \A i \in Slots : readers[i].pc # "read"

\* start_playback has never created a thread
NeverStarted == video_thread = 0 /\ processing_thread = 0

\* C15: on an engine that was never started, with or without a source, each
\* statement of stop_playback() leaves the whole state of the engine as it is
\* (flags False, the source, its position, frame_counter, the buffer, no thread),
\* and stop_playback() returns None.
C15_StopBeforeStartIsNoOp ==
    [][ (mop = "stop_playback" /\ mpc \in StopLabels /\ MainStatement /\ NeverStarted) =>
            /\ vpstate' = vpstate
            /\ ~is_playing' /\ ~processing_active'
            /\ AllThreadsDead'
            /\ mpc' \in StopLabels \cup {"idle"}
            /\ mpc' = "idle" => mret' = "None" ]_vars

\* C15 happens: stop_playback() has returned on an engine with a source loaded
\* that was never started.
C15_Witness ==
    /\ mop = "stop_playback"
    /\ mprev = "load_video"
    /\ mpc = "idle"
    /\ NeverStarted
    /\ cap.open

\* cleanup has returned
CleanupReturned == mop = "cleanup" /\ mpc = "idle"

\* C16: whenever cleanup() has returned, the first time or the second time in
\* succession, it has returned None, the engine is Stopped (both flags False)
\* and is_video_loaded() is False; and no statement of the second call changes
\* the flags or the capture handle that the first call left.
C16_CleanupIdempotent ==
    /\ [](CleanupReturned =>
            /\ mret = "None"
            /\ ~is_playing
            /\ ~processing_active
            /\ ~is_video_loaded)
    /\ [][ (mop = "cleanup" /\ mprev = "cleanup" /\ MainStatement) =>
                /\ cap' = cap
                /\ is_playing' = is_playing
                /\ processing_active' = processing_active ]_vars

\* C16 happens: cleanup() has returned for the second time in succession on an
\* engine that had a source loaded and had been started.
C16_Witness ==
    /\ CleanupReturned
    /\ mprev = "cleanup"
    /\ cap.made
    /\ video_thread # 0
    /\ delivered # <<>>

\* C17: an exception of the frame callback leaves the delivery thread at the top
\* of its loop with processing_active and the buffer as they were; the delivery
\* thread ends only by returning, and returns only from its while test with
\* processing_active False; so every sampled frame of the run is still passed to
\* the callback in order, or is left in the buffer when the run ends.
C17_CallbackExceptionKeepsLoop ==
    /\ [][ \A j \in Slots :
              Len(loop_errors') > Len(loop_errors) /\ procs[j].pc = "callback" =>
                  /\ procs'[j].pc = "check"
                  /\ processing_active' = processing_active
                  /\ frame_queue' = frame_queue ]_vars
    /\ [][ \A j \in Slots :
              /\ (procs[j].pc # "dead" /\ procs'[j].pc = "dead") => procs[j].pc = "return"
              /\ (procs[j].pc # "return" /\ procs'[j].pc = "return") =>
                    procs[j].pc = "check" /\ ~processing_active ]_vars
    /\ [](IsPrefix(delivered, <<TenFrame(2), TenFrame(5), TenFrame(8)>>))
    /\ [](TenFramesRunEnded =>
              delivered \o frame_queue = <<TenFrame(2), TenFrame(5), TenFrame(8)>>)

\* C17 happens: the callback raised on the first frame passed to it, and the two
\* sampled frames after it were passed to the callback all the same.
C17_Witness ==
    /\ loop_errors # <<>>
    /\ loop_errors[1] = 1
    /\ Len(delivered) = 3

\* C18: a reader whose observer raised at end-of-stream still leaves the frame
\* source at position 0, frame_counter at 0 and the engine Stopped when its
\* thread ends.
C18_ObserverExceptionStillRewinds ==
    \A i \in Slots :
        readers[i].pc = "raised" =>
            /\ ~is_playing
            /\ ~processing_active
            /\ cap.pos = 0
            /\ frame_counter = 0

\* The last element of a sequence
Last(seq) == seq[Len(seq)]

\* C19: a step that changes a widget or the ModelManager (predict included) is
\* never a step of a reader or delivery thread; the call of the frame callback
\* does nothing but post the detection on that frame to the presentation
\* thread, and the call of the playback-state observer nothing but post the
\* relabelling of the play button.
C19_CallbacksOnlyPost ==
    /\ [][ (widgets' # widgets \/ mmvars' # mmvars) =>
                readers' = readers /\ procs' = procs ]_vars
    /\ [][ delivered' # delivered =>
                tk_queue' = Append(tk_queue, FramePost(Last(delivered'))) ]_vars
    /\ [][ notified' # notified =>
                tk_queue' = Append(tk_queue, ButtonPost(Last(notified'))) ]_vars
    /\ [][ tk_queue' # tk_queue /\ Len(tk_queue') < Len(tk_queue) =>
                mpc = "idle" /\ readers' = readers /\ procs' = procs ]_vars

\* C19 happens: the run has ended, every posted callback has run on the
\* presentation thread, inference ran there and the last sampled frame is shown.
C19_Witness ==
    /\ TenFramesRunEnded
    /\ tk_queue = <<>>
    /\ Len(backend_calls) = 3
    /\ widgets.image_label = TenFrame(8)
    /\ widgets.play_button.text = "Play"

\* C20: whenever no load handler is between its try and the end of its finally
\* clause (the handler has returned, by success, by a failed load or by an
\* exception caught on the way), the three load buttons are enabled and carry
\* their original labels; while a handler works, only its own button is disabled.
C20_ButtonsRestored ==
    /\ mpc \notin {"h_body", "h_finally"} =>
          \A btn \in LoadHandlers : widgets[btn] = InitialWidgets[btn]
    /\ mpc \in {"h_body", "h_finally"} =>
          \A btn \in LoadHandlers \ {mop} : widgets[btn] = InitialWidgets[btn]

\* C20 happens: a load handler has returned after an exception (the file could
\* not be loaded), with a model loaded.
C20_Witness ==
    /\ mpc = "idle"
    /\ mop \in {"load_image_btn", "load_video_btn"}
    /\ mbranch = "except"
    /\ mret = "except"
    /\ is_loaded


\* C21: for an empty detection batch, generate_detection_stats returns total 0
\* with empty class counts and empty confidence statistics,
\* format_detection_results returns the fixed no-detections message, and
\* format_statistics_text on those statistics returns the fixed zero-total
\* message, no percentage computed
C21_EmptyBatchFixedOutputs ==
    results = <<>> =>
        /\ stats.total_detections >= 0 =>
              /\ stats.total_detections = 0
              /\ stats.class_counts = <<>>
              /\ DOMAIN stats.confidence_stats = {}
        /\ result_text # NoText => result_text = NoDetectionsMessage
        /\ stats_text # NoText => stats_text = ZeroTotalMessage

C21_Witness ==
    /\ results = <<>>
    /\ stats.total_detections = 0
    /\ result_text = NoDetectionsMessage
    /\ stats_text = ZeroTotalMessage


\* The class counts give each label of the batch once, with the number of
\* detections carrying it, and their values sum to total_detections
CountsRight ==
    LET cc == stats.class_counts
        names == Names(results)
    IN  /\ {cc[i][1] : i \in DOMAIN cc} = {names[i] : i \in DOMAIN names}
        /\ \A i, j \in DOMAIN cc : cc[i][1] = cc[j][1] => i = j
        /\ \A i \in DOMAIN cc : cc[i][2] = CountOf(cc[i][1], names)
        /\ SumOf([i \in DOMAIN cc |-> cc[i][2]]) = stats.total_detections

\* C22 (as stated): for every detection batch, class_counts maps each label to
\* the number of detections carrying it, its values sum to total_detections,
\* and its keys iterate in the order in which the labels first appear in the
\* batch
C22_KeysInFirstSeenOrder ==
    stats.total_detections >= 0 =>
        /\ CountsRight
        /\ [i \in DOMAIN stats.class_counts |-> stats.class_counts[i][1]]
               = first_seen(Names(results))

\* C22 (amended): for every detection batch, class_counts maps each label to
\* the number of detections carrying it, its values sum to total_detections,
\* and its keys iterate from the most frequent label to the least frequent
C22_KeysByDescendingCount ==
    stats.total_detections >= 0 =>
        /\ CountsRight
        /\ \A i, j \in DOMAIN stats.class_counts :
              i < j => stats.class_counts[i][2] >= stats.class_counts[j][2]

\* Statistics of a batch whose first label is not its most frequent one
C22_Witness ==
    /\ Len(results) = 3
    /\ results[1].name = "car"
    /\ results[2].name = "person"
    /\ results[3].name = "person"
    /\ stats.total_detections = 3
    /\ stats.class_counts = <<<<"person", 2>>, <<"car", 1>>>>


\* C23: under any sequence of start_playback(), stop_playback(),
\* toggle_playback() and cleanup() calls from the presentation thread, at most
\* one reader loop thread and at most one delivery loop thread are alive at any
\* time
C23_OneReaderOneDeliverer ==
    /\ Cardinality({i \in Slots : readers[i].pc # "dead"}) <= 1
    /\ Cardinality({j \in Slots : procs[j].pc # "dead"}) <= 1

\* A second start_playback() in a row has returned, both loops still running
C23_Witness ==
    /\ mpc = "idle"
    /\ mop = "start_playback"
    /\ mprev = "start_playback"
    /\ is_alive(readers, video_thread)
    /\ is_alive(procs, processing_thread)


\* The last call of the presentation thread was start_playback() on an open
\* source, and it has returned
StartedLast ==
    /\ mpc = "idle"
    /\ mop = "start_playback"
    /\ nops = MaxOps
    /\ cap.open

\* C24: if start_playback() is called with a finite source open and no stop is
\* issued afterwards, playback eventually reaches end-of-stream and the engine
\* ends Stopped, also when the start is issued while an earlier reader thread
\* is exiting
C24_StartReachesEndOfStream ==
    [](StartedLast => <>(~is_playing /\ ~processing_active /\ AllThreadsDead))


\* C25: after load_video() returns successfully the engine is Stopped
\* (is_playing False, no loop reading the new source) and frame_counter is 0,
\* even when the call is made while the previous video is playing
C25_LoadEndsSession ==
    (mpc = "idle" /\ mop = "load_video" /\ mret = "True") =>
        /\ ~is_playing
        /\ \A i \in Slots : readers[i].pc = "dead"
        /\ frame_counter = 0


\* C26: no frame enqueued before a stop, an end-of-stream, a reset_video() or a
\* load_video() is passed to the frame callback after the next
\* start_playback(): the buffer being first-in first-out with one consumer, a
\* run that began with sampled frames still undelivered has delivered nothing
C26_NoStaleFrameDelivered ==
    Len(delivered) > run_base => run_stale = 0


\* C27: whenever no reader thread is running and the presentation thread is
\* between two calls, frame_counter equals the number of frames read from the
\* current source since its position was last 0, which is its read position
C27_CounterFollowsPosition ==
    (mpc = "idle" /\ cap.open /\ \A i \in Slots : readers[i].pc = "dead") =>
        frame_counter = cap.pos


\* C28: a load_video(path) call that fails returns False and leaves the
\* previously loaded video usable: after a successful load_video() followed by
\* a failing one, is_video_loaded() still answers True and the capture is the
\* one of the previous video
C28_FailedLoadKeepsVideo ==
    (/\ mpc = "idle"
     /\ nops = 2
     /\ mop = "load_video"
     /\ mprev = "load_video"
     /\ current_video_path # ""
     /\ mret = "False") =>
        /\ is_video_loaded
        /\ cap.vid = current_video_path


\* No handler is running, every posted callback has run, and no reader is
\* between clearing is_playing at end-of-stream and posting the notification
PostsDone ==
    /\ mpc = "idle"
    /\ tk_queue = <<>>
    /\ \A i \in Slots : readers[i].pc \notin {"eos_active", "eos_notify"}

\* C29: once every callback posted to the presentation thread has run, the play
\* button shows 'Pause' if and only if is_playing is True, for any interleaving
\* of toggle_video(), stop_video() and the end-of-stream notification
C29_PlayButtonShowsState ==
    PostsDone => (widgets.play_button.text = PlayLabel(TRUE) <=> is_playing)


\* get_first_frame(), called with the engine Stopped, has returned
FirstFrameReturned == mpc = "idle" /\ mop = "get_first_frame"

\* C30: get_first_frame() on an opened, non-empty source with the engine
\* Stopped returns the frame at source index 0 and leaves the read position at
\* frame 0, whatever the position was before the call; with no source it
\* returns None and changes nothing
C30_FirstFrameIsFrameZero ==
    FirstFrameReturned =>
        /\ (cap.open /\ VideoFrames(cap.vid) > 0) => (mret = "0" /\ cap.pos = 0)
        /\ ~cap.made => (mret = "None" /\ cap = NoCap)

====
